---- MODULE Spec2Model ----
(***************************************************************************)
(* Live bus-trip tracking of SeifallahZoghbi/atlas.                        *)
(*                                                                         *)
(* The state is the content of the tracking tables of the bus-tracking     *)
(* migration (bus_trips, bus_stop_events, student_bus_scans,               *)
(* bus_location_history, feed_items) together with the React state of the  *)
(* driver application's two screens (DriverHomeScreen, ActiveTripScreen)   *)
(* for each signed-in device.  One school is modelled, so every school_id  *)
(* conjunct of the row-level-security policies is true and left out.       *)
(***************************************************************************)
EXTENDS Integers, Sequences, FiniteSets, Bags, TLC

VARIABLES
    now,                    \* wall clock (new Date(), NOW())
    bus_trips,              \* table bus_trips, row i has id i
    bus_stop_events,        \* table bus_stop_events, in insertion order
    student_bus_scans,      \* table student_bus_scans, in insertion order
    bus_location_history,   \* table bus_location_history, in insertion order
    feed_items,             \* table feed_items (rows written by the bus triggers)
    bus_alerts,             \* table bus_alerts, in insertion order
    locationCalls,          \* updateLocation calls that have not returned yet
    activeTrip,             \* DriverHomeScreen: useState activeTrip (a trip id)
    alert,                  \* the last Alert.alert dialog a device has shown
    screen,                 \* which screen is on top of the device's stack
    id,                     \* ActiveTripScreen: route parameter id
    loading,                \* ActiveTripScreen: useState loading
    currentStopIndex,       \* ActiveTripScreen: useState currentStopIndex
    stops,                  \* ActiveTripScreen: useState stops (arrived/departed flags)
    students,               \* ActiveTripScreen: useState students (boarded flags)
    reloads,                \* ActiveTripScreen: fetchTripData calls still in flight
    trackingLocation,       \* ActiveTripScreen: location subscription is delivering
    showAlertModal,         \* ActiveTripScreen: useState showAlertModal
    viewerTrip,             \* BusTrackingScreen: useState activeTrip, with the
                            \* number of the fetchData call that set it
    viewerCalls,            \* BusTrackingScreen: fetchData calls in flight
    viewerIssued            \* BusTrackingScreen: fetchData calls started so far

db   == <<bus_trips, bus_stop_events, student_bus_scans, bus_location_history,
         feed_items, bus_alerts>>
home == <<activeTrip, alert>>
trip == <<id, loading, currentStopIndex, stops, students, reloads, trackingLocation,
         showAlertModal>>
viewer == <<viewerTrip, viewerCalls, viewerIssued>>
vars == <<now, db, home, screen, trip, locationCalls, viewer>>

----------------------------------------------------------------------------
(* Bounds of the model *)
MaxClock      == 1
MaxTrips      == 2
MaxStopEvents == 3
MaxScans      == 3
MaxFixes      == 2
MaxAlerts     == 2
MaxRefreshes  == 2
MaxReloads    == 2

(* The fixed data the engine only reads: users, routes, stops, roster *)
Sessions   == {"dev1", "dev2"}
Users      == {"driver1", "admin1"}
Routes     == {"route1"}
TripTypes  == {"morning", "afternoon"}
Students   == {"stu1"}
Positions  == {"posA", "posB"}
StopIds    == {"stopA", "stopB"}
AlertTypes == {"delay", "breakdown"}
Today      == "today"

SessionUser(s) == "driver1"
Role(u)        == IF u = "admin1" THEN "admin" ELSE "driver"
RouteDriver(r) == "driver1"
RouteBus(r)    == "bus1"

NoTrip == 0
NoTime == -1
NoPos  == "none"
NoStop == "none"

(* bus_stops of the route, ordered by stop_number (.order('stop_number')) *)
StopList == <<"stopA", "stopB">>
stop_number(st) == IF st = "stopA" THEN 1 ELSE 2

(* student_bus_assignments: the stop of each student on the route *)
StudentStop(st) == "stopA"

(* JavaScript stops[i]: undefined outside the array *)
StopAt(i) == IF i + 1 \in DOMAIN StopList THEN StopList[i + 1] ELSE NoStop

----------------------------------------------------------------------------
(* The database *)

(* Values a client can send for a UUID column *)
Uuid(v)    == [t |-> "uuid", v |-> v]
JsonObj(v) == [t |-> "object", v |-> v]
JsonNull   == [t |-> "null", v |-> "null"]

(* UNIQUE(route_id, trip_date, trip_type) *)
UniqueViolation_activeOnly(rows, row) ==
    \E i \in DOMAIN rows :
        /\ rows[i].route_id = row.route_id
        /\ rows[i].trip_date = row.trip_date
        /\ rows[i].trip_type = row.trip_type
        /\ rows[i].status \in {"scheduled", "in_progress"}

UniqueViolation_off(rows, row) == FALSE

UniqueViolation(rows, row) ==
    \E i \in DOMAIN rows :
        /\ rows[i].route_id = row.route_id
        /\ rows[i].trip_date = row.trip_date
        /\ rows[i].trip_type = row.trip_type

(* Policy bus_trips_driver, FOR ALL: the row's driver or an admin *)
bus_trips_driver(uid, row) == row.driver_id = uid \/ Role(uid) = "admin"

(* Policies bus_location_history_driver, bus_stop_events_driver and
   student_bus_scans_driver, FOR ALL: the driver of the trip or an admin *)
trip_writer(uid, rows, trip_id) ==
    \E i \in DOMAIN rows :
        i = trip_id /\ (rows[i].driver_id = uid \/ Role(uid) = "admin")

(* Policy "Staff can create feed items" *)
feed_items_insert(uid) == Role(uid) \in {"admin", "teacher"}

(* Trigger function create_bus_feed_item: the feed rows it inserts *)
create_bus_feed_item_anystatus(old_status, new) ==
    IF old_status \in {"null", "scheduled"}
    THEN <<[type |-> "bus", trip_id |-> new.id]>>
    ELSE <<>>

create_bus_feed_item(old_status, new) ==
    IF new.status = "in_progress" /\ old_status \in {"null", "scheduled"}
    THEN <<[type |-> "bus", trip_id |-> new.id]>>
    ELSE <<>>

(* The row INSERT INTO bus_trips stores, column defaults filled in *)
NewTripRow(rows, req) ==
    [ id                   |-> Len(rows) + 1,
      route_id             |-> req.route_id,
      driver_id            |-> req.driver_id,
      trip_date            |-> req.trip_date,
      trip_type            |-> req.trip_type,
      status               |-> req.status,
      actual_start         |-> req.actual_start,
      actual_end           |-> NoTime,
      current_position     |-> NoPos,
      last_location_update |-> NoTime,
      current_stop_index   |-> 0,
      students_on_board    |-> 0 ]

(* Outcome of INSERT INTO bus_trips by user uid: the SQLSTATE, or "none" *)
BusTripInsertError_off(uid, rows, req) == "none"

BusTripInsertError(uid, rows, req) ==
    IF req.bus_id.t = "object" THEN "22P02"          \* not a uuid
    ELSE IF req.bus_id.t = "null" THEN "23502"       \* bus_id NOT NULL
    ELSE IF ~bus_trips_driver(uid, req) THEN "42501"
    ELSE IF UniqueViolation(rows, req) THEN "23505"
    ELSE IF create_bus_feed_item("null", NewTripRow(rows, req)) # <<>>
            /\ ~feed_items_insert(uid)
         THEN "42501"                                \* trigger insert denied
    ELSE "none"

(* UPDATE bus_trips SET patch WHERE id = trip_id, by user uid: rows the
   policy hides are not updated *)
UpdateTrip(uid, rows, trip_id, patch) ==
    [ i \in DOMAIN rows |->
        IF i = trip_id /\ bus_trips_driver(uid, rows[i])
        THEN [ f \in DOMAIN rows[i] |->
                 IF f \in DOMAIN patch THEN patch[f] ELSE rows[i][f] ]
        ELSE rows[i] ]

(* Trigger on_bus_trip_status_change, AFTER UPDATE: the feed rows written
   when user uid updates trip trip_id from rows to rows2 *)
FeedOnUpdate(uid, rows, rows2, trip_id) ==
    IF trip_id \in DOMAIN rows /\ bus_trips_driver(uid, rows[trip_id])
    THEN create_bus_feed_item(rows[trip_id].status, rows2[trip_id])
    ELSE <<>>

RECURSIVE ScanSum(_, _)
(* SUM(CASE WHEN scan_type = 'board' THEN 1 ELSE -1 END) over the trip's scans *)
ScanSum(scans, trip_id) ==
    IF scans = <<>> THEN 0
    ELSE LET h == Head(scans)
         IN  (IF h.trip_id # trip_id THEN 0
              ELSE IF h.scan_type = "board" THEN 1 ELSE -1)
             + ScanSum(Tail(scans), trip_id)

(* Trigger function update_trip_student_count, run after a scan insert *)
update_trip_student_count(uid, rows, scans, trip_id) ==
    UpdateTrip(uid, rows, trip_id,
               [students_on_board |-> ScanSum(scans, trip_id)])

(* Policy bus_alerts_manage, FOR ALL: admins and drivers of the school *)
bus_alerts_manage(uid) == Role(uid) \in {"admin", "driver"}

(* The severity handleSendAlert sends with an alert type *)
Severity(type) == IF type = "delay" THEN "info" ELSE "warning"

(* The row INSERT INTO bus_alerts stores *)
NewAlertRow(rows, req) ==
    [ id         |-> Len(rows) + 1,
      trip_id    |-> req.trip_id,
      alert_type |-> req.alert_type,
      severity   |-> req.severity,
      created_by |-> req.created_by,
      resolved   |-> FALSE ]

(* Trigger function create_bus_alert_feed_item: the feed row it inserts for
   every new alert *)
create_bus_alert_feed_item(new) ==
    <<[ type     |-> "bus",
        trip_id  |-> new.trip_id,
        alert_id |-> new.id,
        priority |-> IF new.severity = "critical" THEN "urgent"
                     ELSE IF new.severity = "warning" THEN "high"
                     ELSE "normal" ]>>

(* Outcome of INSERT INTO bus_alerts by user uid: the SQLSTATE, or "none".
   Trigger on_bus_alert_created runs in the statement, as the user *)
BusAlertInsertError(uid, rows, req) ==
    IF ~bus_alerts_manage(uid) THEN "42501"
    ELSE IF create_bus_alert_feed_item(NewAlertRow(rows, req)) # <<>>
            /\ ~feed_items_insert(uid)
         THEN "42501"                                \* trigger insert denied
    ELSE "none"

----------------------------------------------------------------------------
(* The state after the migrations have run and every device has signed in
   and finished the first fetchData of its home screen *)
Init ==
    /\ now = 0
    /\ bus_trips = <<>>
    /\ bus_stop_events = <<>>
    /\ student_bus_scans = <<>>
    /\ bus_location_history = <<>>
    /\ feed_items = <<>>
    /\ bus_alerts = <<>>
    /\ locationCalls = EmptyBag
    /\ activeTrip = [s \in Sessions |-> NoTrip]
    /\ alert = [s \in Sessions |-> "none"]
    /\ screen = [s \in Sessions |-> "home"]
    /\ id = [s \in Sessions |-> NoTrip]
    /\ loading = [s \in Sessions |-> TRUE]
    /\ currentStopIndex = [s \in Sessions |-> 0]
    /\ stops = [s \in Sessions |-> [st \in StopIds |-> [arrived |-> FALSE, departed |-> FALSE]]]
    /\ students = [s \in Sessions |-> [st \in Students |-> FALSE]]
    /\ reloads = [s \in Sessions |-> 0]
    /\ trackingLocation = [s \in Sessions |-> FALSE]
    /\ showAlertModal = [s \in Sessions |-> FALSE]
    /\ viewerTrip = [n |-> 0, row |-> <<>>]
    /\ viewerCalls = {}
    /\ viewerIssued = 0

(* Time passes *)
Tick ==
    /\ now < MaxClock
    /\ now' = now + 1
    /\ UNCHANGED <<db, home, screen, trip, locationCalls, viewer>>

(* A back-office client signed in as an admin inserts a trip row for a
   route: scheduled by default, or already in_progress *)
ProvisionTrip(r, tt, st) ==
    LET uid == "admin1"
        req == [ route_id     |-> r,
                 bus_id       |-> Uuid(RouteBus(r)),
                 driver_id    |-> RouteDriver(r),
                 trip_date    |-> Today,
                 trip_type    |-> tt,
                 status       |-> st,
                 actual_start |-> IF st = "in_progress" THEN now ELSE NoTime ]
        row == NewTripRow(bus_trips, req)
    IN  /\ Len(bus_trips) < MaxTrips
        /\ BusTripInsertError(uid, bus_trips, req) = "none"
        /\ bus_trips' = Append(bus_trips, row)
        /\ feed_items' = feed_items \o create_bus_feed_item("null", row)
        /\ UNCHANGED <<now, bus_stop_events, student_bus_scans, bus_location_history,
                       bus_alerts, home, screen, trip, locationCalls, viewer>>

(* ActiveTripScreen is pushed for trip t: a new component instance, whose
   mount effect calls fetchTripData and startLocationTracking *)
Mount(s, t) ==
    /\ screen' = [screen EXCEPT ![s] = "trip"]
    /\ id' = [id EXCEPT ![s] = t]
    /\ loading' = [loading EXCEPT ![s] = TRUE]
    /\ currentStopIndex' = [currentStopIndex EXCEPT ![s] = 0]
    /\ stops' = [stops EXCEPT ![s] = [st \in StopIds |-> [arrived |-> FALSE, departed |-> FALSE]]]
    /\ students' = [students EXCEPT ![s] = [st \in Students |-> FALSE]]
    /\ reloads' = [reloads EXCEPT ![s] = 1]
    /\ trackingLocation' = [trackingLocation EXCEPT ![s] = TRUE]
    /\ showAlertModal' = [showAlertModal EXCEPT ![s] = FALSE]

(* The in_progress trips of a driver today, as fetchData selects them *)
InProgressOf(uid) ==
    { i \in DOMAIN bus_trips :
        /\ bus_trips[i].driver_id = uid
        /\ bus_trips[i].trip_date = Today
        /\ bus_trips[i].status = "in_progress" }

(* DriverHomeScreen.fetchData (mount, pull-to-refresh): .single() yields
   null unless exactly one row matches *)
fetchData(s) ==
    LET found == InProgressOf(SessionUser(s))
    IN  /\ screen[s] = "home"
        /\ activeTrip' = [activeTrip EXCEPT ![s] =
               IF Cardinality(found) = 1 THEN CHOOSE i \in found : TRUE ELSE NoTrip]
        /\ UNCHANGED <<now, db, alert, screen, trip, locationCalls, viewer>>

(* The value startTrip sends as bus_id: route.bus?.bus_number ? route.bus : null,
   where route.bus is the embedded buses row {bus_number, color} *)
BusIdArg(r) == IF RouteBus(r) # "none" THEN JsonObj(RouteBus(r)) ELSE JsonNull

(* DriverHomeScreen.startTrip with the Start button of its dialog pressed;
   tt is suggestedTripType, taken from the device's clock *)
startTrip(s, r, tt) ==
    LET uid == SessionUser(s)
        req == [ route_id     |-> r,
                 bus_id       |-> BusIdArg(r),
                 driver_id    |-> uid,
                 trip_date    |-> Today,
                 trip_type    |-> tt,
                 status       |-> "in_progress",
                 actual_start |-> now ]
        row == NewTripRow(bus_trips, req)
        err == BusTripInsertError(uid, bus_trips, req)
    IN  /\ screen[s] = "home"
        /\ RouteDriver(r) = uid
        /\ (activeTrip[s] = NoTrip /\ err = "none") => Len(bus_trips) < MaxTrips
        /\ IF activeTrip[s] # NoTrip
           THEN /\ alert' = [alert EXCEPT ![s] = "Active Trip"]
                /\ UNCHANGED <<db, activeTrip, screen, trip>>
           ELSE IF err # "none"
           THEN /\ alert' = [alert EXCEPT ![s] = "Failed to start trip"]
                /\ UNCHANGED <<db, activeTrip, screen, trip>>
           ELSE /\ bus_trips' = Append(bus_trips, row)
                /\ feed_items' = feed_items \o create_bus_feed_item("null", row)
                /\ activeTrip' = [activeTrip EXCEPT ![s] = row.id]
                /\ alert' = [alert EXCEPT ![s] = "none"]
                /\ Mount(s, row.id)
                /\ UNCHANGED <<bus_stop_events, student_bus_scans, bus_location_history,
                               bus_alerts>>
        /\ UNCHANGED <<now, locationCalls, viewer>>

(* The active-trip banner, or "Go to Trip" of the Active Trip dialog:
   router.push of the trip screen for activeTrip.id *)
goToTrip(s) ==
    /\ screen[s] = "home"
    /\ activeTrip[s] # NoTrip
    /\ Mount(s, activeTrip[s])
    /\ alert' = [alert EXCEPT ![s] = "none"]
    /\ UNCHANGED <<now, db, activeTrip, locationCalls, viewer>>

----------------------------------------------------------------------------
(* ActiveTripScreen *)

(* An UPDATE of one bus_trips row with its AFTER UPDATE trigger: the whole
   statement is undone when the trigger's feed insert is denied *)
UpdateTripStmt(uid, rows, feed, trip_id, patch) ==
    LET rows2 == UpdateTrip(uid, rows, trip_id, patch)
        f     == FeedOnUpdate(uid, rows, rows2, trip_id)
    IN  IF f # <<>> /\ ~feed_items_insert(uid)
        THEN [rows |-> rows, feed |-> feed]
        ELSE [rows |-> rows2, feed |-> feed \o f]

(* events.includes(type) over the stop events of a trip and stop *)
HasEvent(events, t, st, type) ==
    \E i \in DOMAIN events :
        events[i].trip_id = t /\ events[i].stop_id = st /\ events[i].event_type = type

(* boardedStudents.has(student): some board scan of the student on the trip *)
Boarded(scans, t, stu) ==
    \E i \in DOMAIN scans :
        scans[i].trip_id = t /\ scans[i].student_id = stu /\ scans[i].scan_type = "board"

(* One fetchTripData call runs to completion and sets the screen's state *)
fetchTripData(s) ==
    LET t == id[s]
    IN  /\ screen[s] = "trip"
        /\ reloads[s] > 0
        /\ reloads' = [reloads EXCEPT ![s] = @ - 1]
        /\ currentStopIndex' = [currentStopIndex EXCEPT ![s] = bus_trips[t].current_stop_index]
        /\ stops' = [stops EXCEPT ![s] = [st \in StopIds |->
               [arrived  |-> HasEvent(bus_stop_events, t, st, "arrived"),
                departed |-> HasEvent(bus_stop_events, t, st, "departed")]]]
        /\ students' = [students EXCEPT ![s] = [stu \in Students |->
               Boarded(student_bus_scans, t, stu)]]
        /\ loading' = [loading EXCEPT ![s] = FALSE]
        /\ UNCHANGED <<now, db, home, screen, id, trackingLocation, showAlertModal,
                       locationCalls, viewer>>

(* The stop list's onPress: setCurrentStopIndex(index) *)
selectStop(s, i) ==
    /\ screen[s] = "trip"
    /\ ~loading[s]
    /\ i + 1 \in DOMAIN StopList
    /\ currentStopIndex' = [currentStopIndex EXCEPT ![s] = i]
    /\ UNCHANGED <<now, db, home, screen, id, loading, stops, students,
                   reloads, trackingLocation, showAlertModal, locationCalls, viewer>>

(* "Arrive at Stop" on the current stop card: handleArriveAtStop(currentStop) *)
handleArriveAtStop(s) ==
    LET uid == SessionUser(s)
        t   == id[s]
        cur == StopAt(currentStopIndex[s])
        upd == UpdateTripStmt(uid, bus_trips, feed_items, t,
                              [current_stop_index |-> stop_number(cur)])
    IN  /\ screen[s] = "trip"
        /\ ~loading[s]
        /\ cur # NoStop
        /\ ~stops[s][cur].arrived
        /\ Len(bus_stop_events) < MaxStopEvents
        /\ reloads[s] < MaxReloads
        /\ bus_stop_events' =
              IF trip_writer(uid, bus_trips, t)
              THEN Append(bus_stop_events,
                          [trip_id |-> t, stop_id |-> cur, event_type |-> "arrived",
                           students_boarded |-> 0])
              ELSE bus_stop_events
        /\ bus_trips' = upd.rows
        /\ feed_items' = upd.feed
        /\ reloads' = [reloads EXCEPT ![s] = @ + 1]
        /\ UNCHANGED <<now, student_bus_scans, bus_location_history, bus_alerts, home,
                       screen, id, loading, currentStopIndex, stops, students,
                       trackingLocation, showAlertModal, locationCalls, viewer>>

(* The stop card shows "Depart from Stop" for stop st: the screen holds it
   as arrived and not departed *)
DepartOffered_unarrived(s, st) == ~stops[s][st].departed

DepartOffered(s, st) == stops[s][st].arrived /\ ~stops[s][st].departed

(* "Depart from Stop": handleDepartFromStop(currentStop, boarded at the stop, 0) *)
handleDepartFromStop(s) ==
    LET uid == SessionUser(s)
        t   == id[s]
        cur == StopAt(currentStopIndex[s])
        n   == Cardinality({stu \in Students : StudentStop(stu) = cur /\ students[s][stu]})
    IN  /\ screen[s] = "trip"
        /\ ~loading[s]
        /\ cur # NoStop
        /\ DepartOffered(s, cur)
        /\ Len(bus_stop_events) < MaxStopEvents
        /\ reloads[s] < MaxReloads
        /\ bus_stop_events' =
              IF trip_writer(uid, bus_trips, t)
              THEN Append(bus_stop_events,
                          [trip_id |-> t, stop_id |-> cur, event_type |-> "departed",
                           students_boarded |-> n])
              ELSE bus_stop_events
        /\ reloads' = [reloads EXCEPT ![s] = @ + 1]
        /\ UNCHANGED <<now, bus_trips, student_bus_scans, bus_location_history,
                       feed_items, bus_alerts, home, screen, id, loading,
                       currentStopIndex, stops, students, trackingLocation,
                       showAlertModal, locationCalls, viewer>>

(* A tap on a student row of the current stop card:
   handleScanStudent(student, student.boarded ? 'exit' : 'board') *)
handleScanStudent(s, stu) ==
    LET uid   == SessionUser(s)
        t     == id[s]
        cur   == StopAt(currentStopIndex[s])
        scans == Append(student_bus_scans,
                        [trip_id |-> t, student_id |-> stu, stop_id |-> cur,
                         scan_type |-> IF students[s][stu] THEN "exit" ELSE "board"])
    IN  /\ screen[s] = "trip"
        /\ ~loading[s]
        /\ cur # NoStop
        /\ StudentStop(stu) = cur
        /\ Len(student_bus_scans) < MaxScans
        /\ reloads[s] < MaxReloads
        /\ IF trip_writer(uid, bus_trips, t)
           THEN /\ student_bus_scans' = scans
                /\ bus_trips' = update_trip_student_count(uid, bus_trips, scans, t)
           ELSE UNCHANGED <<student_bus_scans, bus_trips>>
        /\ reloads' = [reloads EXCEPT ![s] = @ + 1]
        /\ UNCHANGED <<now, bus_stop_events, bus_location_history, feed_items,
                       bus_alerts, home, screen, id, loading, currentStopIndex,
                       stops, students, trackingLocation, showAlertModal,
                       locationCalls, viewer>>

(* An updateLocation call in flight: its user, the trip id of its closure,
   the fix, the timestamp it put in the update, and the request it is
   waiting for *)
LocationCall(uid, t, pos, at, pc) ==
    [ uid |-> uid, trip_id |-> t, position |-> pos, last_location_update |-> at,
      pc |-> pc ]

(* The calls in flight and the fixes already stored, together *)
FixCount == BagCardinality(locationCalls) + Len(bus_location_history)

(* The watchPositionAsync callback delivers a fix: updateLocation(location)
   builds the bus_trips update, stamped with the device's clock, and sends it *)
updateLocation(s, pos) ==
    /\ screen[s] = "trip"
    /\ trackingLocation[s]
    /\ FixCount < MaxFixes
    /\ locationCalls' =
          locationCalls (+) SetToBag({LocationCall(SessionUser(s), id[s], pos, now, "update")})
    /\ UNCHANGED <<now, db, home, screen, trip, viewer>>

(* INSERT INTO bus_location_history by user uid: recorded_at DEFAULT NOW() *)
InsertFix_lost(uid, rows, history, c, at) == history

InsertFix(uid, rows, history, c, at) ==
    IF trip_writer(uid, rows, c.trip_id)
    THEN Append(history, [trip_id |-> c.trip_id, position |-> c.position,
                          recorded_at |-> at])
    ELSE history

(* The database runs the bus_trips update of call c, in whatever order the
   requests arrive; on its response the call sends the history insert *)
updateLocationUpdated(c) ==
    LET upd == UpdateTripStmt(c.uid, bus_trips, feed_items, c.trip_id,
                              [current_position     |-> c.position,
                               last_location_update |-> c.last_location_update])
    IN  /\ BagIn(c, locationCalls)
        /\ c.pc = "update"
        /\ bus_trips' = upd.rows
        /\ feed_items' = upd.feed
        /\ locationCalls' =
              (locationCalls (-) SetToBag({c}))
                  (+) SetToBag({[c EXCEPT !.pc = "insert"]})
        /\ UNCHANGED <<now, bus_stop_events, student_bus_scans, bus_location_history,
                       bus_alerts, home, screen, trip, viewer>>

(* The database runs the history insert of call c and the call returns *)
updateLocationInserted(c) ==
    /\ BagIn(c, locationCalls)
    /\ c.pc = "insert"
    /\ bus_location_history' =
          InsertFix(c.uid, bus_trips, bus_location_history, c, now)
    /\ locationCalls' = locationCalls (-) SetToBag({c})
    /\ UNCHANGED <<now, bus_trips, bus_stop_events, student_bus_scans, feed_items,
                   bus_alerts, home, screen, trip, viewer>>

(* The header's Alert button: setShowAlertModal(true) *)
openAlertModal(s) ==
    /\ screen[s] = "trip"
    /\ ~loading[s]
    /\ ~showAlertModal[s]
    /\ showAlertModal' = [showAlertModal EXCEPT ![s] = TRUE]
    /\ UNCHANGED <<now, db, home, screen, id, loading, currentStopIndex, stops,
                   students, reloads, trackingLocation, locationCalls, viewer>>

(* "Send Alert" of the modal, with alert type `type` selected: the insert's
   error is returned, not thrown, so the Success dialog follows either way *)
handleSendAlert(s, type) ==
    LET uid == SessionUser(s)
        req == [ trip_id    |-> id[s],
                 alert_type |-> type,
                 severity   |-> Severity(type),
                 created_by |-> uid ]
        row == NewAlertRow(bus_alerts, req)
        err == BusAlertInsertError(uid, bus_alerts, req)
    IN  /\ screen[s] = "trip"
        /\ ~loading[s]
        /\ showAlertModal[s]
        /\ err = "none" => Len(bus_alerts) < MaxAlerts
        /\ IF err = "none"
           THEN /\ bus_alerts' = Append(bus_alerts, row)
                /\ feed_items' = feed_items \o create_bus_alert_feed_item(row)
           ELSE UNCHANGED <<bus_alerts, feed_items>>
        /\ showAlertModal' = [showAlertModal EXCEPT ![s] = FALSE]
        /\ alert' = [alert EXCEPT ![s] = "Alert sent to school"]
        /\ UNCHANGED <<now, bus_trips, bus_stop_events, student_bus_scans,
                       bus_location_history, activeTrip, screen, id, loading,
                       currentStopIndex, stops, students, reloads, trackingLocation,
                       locationCalls, viewer>>

(* The trip screen leaves the stack: the effect's cleanup runs
   stopLocationTracking and the component's state is gone *)
Unmount(s) ==
    /\ screen' = [screen EXCEPT ![s] = "home"]
    /\ id' = [id EXCEPT ![s] = NoTrip]
    /\ loading' = [loading EXCEPT ![s] = TRUE]
    /\ currentStopIndex' = [currentStopIndex EXCEPT ![s] = 0]
    /\ stops' = [stops EXCEPT ![s] = [st \in StopIds |-> [arrived |-> FALSE, departed |-> FALSE]]]
    /\ students' = [students EXCEPT ![s] = [st \in Students |-> FALSE]]
    /\ reloads' = [reloads EXCEPT ![s] = 0]
    /\ trackingLocation' = [trackingLocation EXCEPT ![s] = FALSE]
    /\ showAlertModal' = [showAlertModal EXCEPT ![s] = FALSE]

(* The awaited bus_trips update of handleEndTrip: when the request fails
   (delivered = FALSE) supabase-js resolves with { error }, it does not throw,
   and the tables are as before *)
EndTripWrite(uid, rows, feed, trip_id, at, delivered) ==
    IF delivered
    THEN UpdateTripStmt(uid, rows, feed, trip_id,
                        [status |-> "completed", actual_end |-> at])
    ELSE [rows |-> rows, feed |-> feed]

(* "End Trip" confirmed: handleEndTrip's onPress; nothing reads the result of
   the update, so stopLocationTracking and router.back always follow *)
handleEndTrip(s) ==
    \E delivered \in BOOLEAN :
        LET upd == EndTripWrite(SessionUser(s), bus_trips, feed_items, id[s], now,
                                delivered)
        IN  /\ screen[s] = "trip"
            /\ ~loading[s]
            /\ bus_trips' = upd.rows
            /\ feed_items' = upd.feed
            /\ Unmount(s)
            /\ UNCHANGED <<now, bus_stop_events, student_bus_scans,
                           bus_location_history, bus_alerts, home, locationCalls, viewer>>

(* The header's back button: the trip screen is popped without ending the trip *)
goBack(s) ==
    /\ screen[s] = "trip"
    /\ Unmount(s)
    /\ UNCHANGED <<now, db, home, locationCalls, viewer>>

----------------------------------------------------------------------------
(* BusTrackingScreen of the parent application, open for a student whose
   morning route is ViewerRoute, before noon *)
ViewerRoute    == "route1"
ViewerTripType == "morning"

(* The active-trip query of fetchData: the trip of the route, today, of the
   current trip type, scheduled or in_progress; .single() yields the row
   only when exactly one matches *)
ActiveTripQuery(rows) ==
    LET found == { i \in DOMAIN rows :
                     /\ rows[i].route_id = ViewerRoute
                     /\ rows[i].trip_date = Today
                     /\ rows[i].trip_type = ViewerTripType
                     /\ rows[i].status \in {"scheduled", "in_progress"} }
    IN  IF Cardinality(found) = 1 THEN <<rows[CHOOSE i \in found : TRUE]>> ELSE <<>>

(* fetchData is called: by the mount effect, a bus_trips or scan change
   event, the 30 s interval or pull-to-refresh *)
viewerFetchData ==
    /\ viewerIssued < MaxRefreshes
    /\ viewerIssued' = viewerIssued + 1
    /\ viewerCalls' = viewerCalls \cup
          {[n |-> viewerIssued + 1, pc |-> "trip", data |-> <<>>]}
    /\ UNCHANGED <<now, db, home, screen, trip, locationCalls, viewerTrip>>

(* The active-trip query of call c is answered: with a trip the call goes on
   to the stops count, with none it goes on without touching activeTrip *)
viewerTripFetched(c) ==
    LET data == ActiveTripQuery(bus_trips)
    IN  /\ c \in viewerCalls
        /\ c.pc = "trip"
        /\ viewerCalls' =
              IF data = <<>>
              THEN viewerCalls \ {c}
              ELSE (viewerCalls \ {c}) \cup {[c EXCEPT !.pc = "count", !.data = data]}
        /\ UNCHANGED <<now, db, home, screen, trip, locationCalls, viewerTrip,
                       viewerIssued>>

(* The stops count of call c is answered: setActiveTrip({...tripData, ...}) *)
viewerTripSet(c) ==
    /\ c \in viewerCalls
    /\ c.pc = "count"
    /\ viewerTrip' = [n |-> c.n, row |-> c.data]
    /\ viewerCalls' = viewerCalls \ {c}
    /\ UNCHANGED <<now, db, home, screen, trip, locationCalls, viewerIssued>>

----------------------------------------------------------------------------
(* Trip lifecycle: the clock, the back office, the home screen, and the
   opening, loading, ending and closing of the trip screen, on devices S *)
Lifecycle(S) ==
    \/ Tick
    \/ \E r \in Routes, tt \in TripTypes, st \in {"scheduled", "in_progress"} :
          ProvisionTrip(r, tt, st)
    \/ \E s \in S : fetchData(s)
    \/ \E s \in S, r \in Routes, tt \in TripTypes : startTrip(s, r, tt)
    \/ \E s \in S : goToTrip(s)
    \/ \E s \in S : fetchTripData(s)
    \/ \E s \in S : handleEndTrip(s)
    \/ \E s \in S : goBack(s)

(* A running trip worked from the trip screen on devices S: the back office
   inserts it in_progress, the home screen finds it, the trip screen is
   opened, loaded and left *)
TripSession(S) ==
    \/ \E r \in Routes, tt \in TripTypes : ProvisionTrip(r, tt, "in_progress")
    \/ \E s \in S : fetchData(s)
    \/ \E s \in S : goToTrip(s)
    \/ \E s \in S : fetchTripData(s)
    \/ \E s \in S : goBack(s)

(* Stop progression on devices S *)
StopProgression(S) ==
    \/ \E s \in S, i \in 0 .. Len(StopList) - 1 : selectStop(s, i)
    \/ \E s \in S : handleArriveAtStop(s)
    \/ \E s \in S : handleDepartFromStop(s)

(* Occupancy on devices S *)
Occupancy(S) == \E s \in S, stu \in Students : handleScanStudent(s, stu)

(* Alerts on devices S *)
Alerting(S) ==
    \/ \E s \in S : openAlertModal(s)
    \/ \E s \in S, type \in AlertTypes : handleSendAlert(s, type)

(* The parent's tracking screen *)
Viewing ==
    \/ viewerFetchData
    \/ \E c \in viewerCalls : viewerTripFetched(c)
    \/ \E c \in viewerCalls : viewerTripSet(c)

(* Telemetry on devices S *)
Telemetry(S) ==
    \/ \E s \in S, pos \in Positions : updateLocation(s, pos)
    \/ \E c \in BagToSet(locationCalls) : updateLocationUpdated(c)
    \/ \E c \in BagToSet(locationCalls) : updateLocationInserted(c)

Next ==
    \/ Lifecycle(Sessions)
    \/ StopProgression(Sessions)
    \/ Occupancy(Sessions)
    \/ Telemetry(Sessions)
    \/ Alerting(Sessions)
    \/ Viewing

Spec == Init /\ [][Next]_vars

(* The components one at a time *)
NextFleet     == Lifecycle(Sessions)
NextStops     == TripSession(Sessions) \/ StopProgression(Sessions)
NextScans     == Lifecycle(Sessions) \/ Occupancy(Sessions)
NextTelemetry ==
    \/ TripSession(Sessions)
    \/ Tick
    \/ \E s \in Sessions : handleEndTrip(s)
    \/ Telemetry(Sessions)

SpecFleet     == Init /\ [][NextFleet]_vars
SpecStops     == Init /\ [][NextStops]_vars
SpecScans     == Init /\ [][NextScans]_vars
SpecTelemetry == Init /\ [][NextTelemetry]_vars

(* One device working the morning trip through all of its updates: the back
   office inserts it scheduled or in_progress, the driver opens it, records
   arrivals, scans and fixes, and ends it *)
NextFeed ==
    \/ \E r \in Routes, st \in {"scheduled", "in_progress"} :
          ProvisionTrip(r, "morning", st)
    \/ fetchData("dev1")
    \/ goToTrip("dev1")
    \/ fetchTripData("dev1")
    \/ handleArriveAtStop("dev1")
    \/ \E stu \in Students : handleScanStudent("dev1", stu)
    \/ Telemetry({"dev1"})
    \/ handleEndTrip("dev1")

SpecFeed == Init /\ [][NextFeed]_vars

(* A parent watching the trip one driver device works and ends *)
NextViewer ==
    \/ TripSession({"dev1"})
    \/ handleArriveAtStop("dev1")
    \/ handleEndTrip("dev1")
    \/ Viewing

SpecViewer == Init /\ [][NextViewer]_vars

NextAlerts ==
    \/ TripSession(Sessions)
    \/ \E s \in Sessions : handleEndTrip(s)
    \/ Alerting(Sessions)

SpecAlerts == Init /\ [][NextAlerts]_vars

----------------------------------------------------------------------------
(* Properties *)

TripIds == DOMAIN bus_trips

IsActive(i) == bus_trips[i].status \in {"scheduled", "in_progress"}
IsClosed(i) == bus_trips[i].status \in {"completed", "cancelled"}

SameKey(i, j) ==
    /\ bus_trips[i].route_id = bus_trips[j].route_id
    /\ bus_trips[i].trip_date = bus_trips[j].trip_date
    /\ bus_trips[i].trip_type = bus_trips[j].trip_type

(* The positions in a log of the rows of one trip that satisfy P *)
EventsOf(events, t, st, types) ==
    { i \in DOMAIN events :
        events[i].trip_id = t /\ events[i].stop_id = st /\ events[i].event_type \in types }

ScansOf(scans, t, stu) ==
    { i \in DOMAIN scans : scans[i].trip_id = t /\ scans[i].student_id = stu }

Max(a, b) == IF a >= b THEN a ELSE b

(* C1: in every reachable state every trip's students_on_board is at least 0 *)
C1_OnBoardNonNegative ==
    \A i \in TripIds : bus_trips[i].students_on_board >= 0

(* C2: in every reachable state, whatever the interleaving of startTrip calls
   of the devices, no two distinct trips that are scheduled or in_progress
   share (route_id, trip_date, trip_type) *)
C2_OneActiveTripPerKey ==
    \A i, j \in TripIds : (IsActive(i) /\ IsActive(j) /\ SameKey(i, j)) => i = j

(* C2 witness: a key holds an active trip and every device has had a
   startTrip refused *)
C2_Witness ==
    /\ \E i \in TripIds : IsActive(i)
    /\ \A s \in Sessions : alert[s] = "Failed to start trip"

(* C3: a startTrip for a key that already has an in_progress trip fails (a
   dialog reports it and the device stays on the home screen), creates no
   trip and leaves every existing trip unchanged *)
C3_StartTripOnActiveKeyFails ==
    [][ \A s \in Sessions, r \in Routes, tt \in TripTypes :
          ( /\ startTrip(s, r, tt)
            /\ \E i \in TripIds :
                  /\ bus_trips[i].route_id = r
                  /\ bus_trips[i].trip_date = Today
                  /\ bus_trips[i].trip_type = tt
                  /\ bus_trips[i].status = "in_progress" )
          => ( /\ bus_trips' = bus_trips
               /\ alert'[s] \in {"Active Trip", "Failed to start trip"}
               /\ screen'[s] = "home" ) ]_vars

(* C3 witness: a device has been shown the Active Trip dialog by startTrip
   and the trip it holds as active is in_progress *)
C3_Witness ==
    \E s \in Sessions :
        /\ alert[s] = "Active Trip"
        /\ activeTrip[s] \in TripIds
        /\ bus_trips[activeTrip[s]].status = "in_progress"

(* C4: for every (trip, stop) the stop-event log holds at most one arrived
   event and at most one terminal event (departed or skipped), and no event
   of that stop follows its terminal event *)
C4_StopEventsExclusive ==
    \A t \in TripIds, st \in StopIds :
        /\ Cardinality(EventsOf(bus_stop_events, t, st, {"arrived"})) <= 1
        /\ Cardinality(EventsOf(bus_stop_events, t, st, {"departed", "skipped"})) <= 1
        /\ \A i \in EventsOf(bus_stop_events, t, st, {"departed", "skipped"}) :
              \A j \in EventsOf(bus_stop_events, t, st, {"arrived", "departed", "skipped"}) :
                  j <= i

(* C5: no step lowers the current_stop_index of a trip *)
C5_StopIndexMonotonic ==
    [][ \A i \in TripIds :
          bus_trips'[i].current_stop_index >= bus_trips[i].current_stop_index ]_vars

(* C6: the scan log never holds two successive scans of one student on one
   trip with the same type: a repeated scan appends nothing *)
C6_NoRepeatedScan ==
    \A t \in TripIds, stu \in Students :
        \A i, j \in ScansOf(student_bus_scans, t, stu) :
            ( /\ i < j
              /\ \A k \in ScansOf(student_bus_scans, t, stu) : ~(i < k /\ k < j) )
            => student_bus_scans[i].scan_type # student_bus_scans[j].scan_type

(* C7: after every recorded arrival at a stop, repeated or not, the log holds
   exactly one arrived event of that stop on the trip and the trip's
   current_stop_index is the stop's stop_number *)
C7_ArrivalIdempotent ==
    [][ \A s \in Sessions :
          handleArriveAtStop(s)
          => LET t   == id[s]
                 cur == StopAt(currentStopIndex[s])
             IN  /\ Cardinality(EventsOf(bus_stop_events', t, cur, {"arrived"})) = 1
                 /\ bus_trips'[t].current_stop_index = stop_number(cur) ]_vars

(* C8: every trip's students_on_board is max(0, boards - exits) over the
   trip's scan log *)
C8_OnBoardIsClampedReplay ==
    \A i \in TripIds :
        bus_trips[i].students_on_board = Max(0, ScanSum(student_bus_scans, i))

(* The rows of a log that belong to trip t *)
RowsOf(log, t) == { i \in DOMAIN log : log[i].trip_id = t }

(* C9: once a trip is completed or cancelled no step adds to its location
   history, stop-event log or scan log, or changes its position, stop index or
   occupancy *)
C9_ClosedTripAcceptsNoWrites ==
    [][ \A i \in TripIds :
          IsClosed(i)
          => /\ RowsOf(bus_location_history', i) = RowsOf(bus_location_history, i)
             /\ RowsOf(bus_stop_events', i) = RowsOf(bus_stop_events, i)
             /\ RowsOf(student_bus_scans', i) = RowsOf(student_bus_scans, i)
             /\ bus_trips'[i].current_position = bus_trips[i].current_position
             /\ bus_trips'[i].last_location_update = bus_trips[i].last_location_update
             /\ bus_trips'[i].current_stop_index = bus_trips[i].current_stop_index
             /\ bus_trips'[i].students_on_board = bus_trips[i].students_on_board ]_vars

(* The status changes of the trip state machine *)
AllowedStatusChange(from, to) ==
    \/ from = to
    \/ from = "scheduled" /\ to \in {"in_progress", "cancelled"}
    \/ from = "in_progress" /\ to \in {"completed", "cancelled"}

(* C10: a trip changes status only along the state machine, and an endTrip on
   a trip that is not in_progress changes no trip *)
C10_StatusMachine ==
    [][ /\ \A i \in TripIds :
              AllowedStatusChange(bus_trips[i].status, bus_trips'[i].status)
        /\ \A s \in Sessions :
              (handleEndTrip(s) /\ bus_trips[id[s]].status # "in_progress")
              => bus_trips' = bus_trips ]_vars

(* The scans of a student on a trip that are of one type *)
ScansOfType(scans, t, stu, type) ==
    { i \in ScansOf(scans, t, stu) : scans[i].scan_type = type }

(* Boards of the student on the trip that no exit has matched yet *)
OpenBoards(scans, t, stu) ==
    Cardinality(ScansOfType(scans, t, stu, "board"))
        - Cardinality(ScansOfType(scans, t, stu, "exit"))

(* C12: an exit scan of a student who has no board left to match, on an
   in_progress trip with nobody on board, is appended to the scan log as an
   exit, appends no board, and leaves students_on_board at 0 *)
C12_StrayExitKeepsZero ==
    [][ \A s \in Sessions, stu \in Students :
          ( /\ handleScanStudent(s, stu)
            /\ students[s][stu]
            /\ bus_trips[id[s]].status = "in_progress"
            /\ OpenBoards(student_bus_scans, id[s], stu) <= 0
            /\ bus_trips[id[s]].students_on_board = 0 )
          => ( /\ Len(student_bus_scans') = Len(student_bus_scans) + 1
               /\ student_bus_scans'[Len(student_bus_scans')].scan_type = "exit"
               /\ bus_trips'[id[s]].students_on_board = 0 ) ]_vars

(* C13: a completed trip has no stop that is neither arrived nor skipped:
   ending the trip has closed every stop the bus never reached with a
   skipped event *)
C13_CompletedTripStopsClosed ==
    \A i \in TripIds :
        bus_trips[i].status = "completed"
        => \A st \in StopIds :
              EventsOf(bus_stop_events, i, st, {"arrived", "skipped"}) # {}

(* C14: a startTrip by the route's driver for a (route, date, trip type) that
   has no trip creates the trip: in_progress, actual_start set, at stop index
   0 with nobody on board *)
C14_StartTripCreatesTrip ==
    [][ \A s \in Sessions, r \in Routes, tt \in TripTypes :
          ( /\ startTrip(s, r, tt)
            /\ RouteDriver(r) = SessionUser(s)
            /\ ~\E i \in TripIds :
                  /\ bus_trips[i].route_id = r
                  /\ bus_trips[i].trip_date = Today
                  /\ bus_trips[i].trip_type = tt )
          => ( /\ Len(bus_trips') = Len(bus_trips) + 1
               /\ LET new == bus_trips'[Len(bus_trips')]
                  IN  /\ new.route_id = r
                      /\ new.trip_type = tt
                      /\ new.status = "in_progress"
                      /\ new.actual_start = now
                      /\ new.current_stop_index = 0
                      /\ new.students_on_board = 0 ) ]_vars

(* Every departed event in the log follows an arrived event of its stop *)
DepartedFollowsArrived(events) ==
    \A i \in DOMAIN events :
        events[i].event_type = "departed"
        => \E j \in 1 .. i - 1 :
              /\ events[j].trip_id = events[i].trip_id
              /\ events[j].stop_id = events[i].stop_id
              /\ events[j].event_type = "arrived"

(* C11: a departure recorded for a stop that has no arrived event, or that
   already has a departed or skipped event, appends no stop event, and the
   log never holds a departed event of a stop without an earlier arrived
   event of that stop *)
C11_DepartureNeedsOpenArrival ==
    [][ /\ \A s \in Sessions :
              ( /\ handleDepartFromStop(s)
                /\ \/ EventsOf(bus_stop_events, id[s], StopAt(currentStopIndex[s]),
                               {"arrived"}) = {}
                   \/ EventsOf(bus_stop_events, id[s], StopAt(currentStopIndex[s]),
                               {"departed", "skipped"}) # {} )
              => bus_stop_events' = bus_stop_events
        /\ DepartedFollowsArrived(bus_stop_events') ]_vars

(* C20: no trip screen ever shows a stop as departed without showing it as
   arrived, whatever the interleaving of its reloads with the stop events
   written from the devices *)
C20_NoDepartedWithoutArrivedShown ==
    \A s \in Sessions, st \in StopIds :
        stops[s][st].departed => stops[s][st].arrived

(* C20 witness: a screen shows a stop as departed while the screen of another
   device on the same trip still shows it as not departed *)
C20_Witness ==
    \E s, v \in Sessions, st \in StopIds :
        /\ s # v
        /\ id[s] = id[v]
        /\ stops[v][st].departed
        /\ stops[v][st].arrived
        /\ ~stops[s][st].departed

(* C15: no step lowers a trip's last_location_update, and an update that
   carries an older timestamp than the trip's does not replace its position *)
C15_SnapshotNeverGoesBack ==
    [][ \A i \in TripIds :
          /\ bus_trips'[i].last_location_update >= bus_trips[i].last_location_update
          /\ \A c \in BagToSet(locationCalls) :
                ( /\ updateLocationUpdated(c)
                  /\ c.trip_id = i
                  /\ c.last_location_update < bus_trips[i].last_location_update )
                => bus_trips'[i].current_position = bus_trips[i].current_position ]_vars

(* The calls in flight for trip t *)
CallsOf(t) == { c \in BagToSet(locationCalls) : c.trip_id = t }

(* The latest fix of trip t in the history: by recorded_at, ties by order of
   insertion *)
IsLatestFix(history, t, i) ==
    /\ i \in RowsOf(history, t)
    /\ \A j \in RowsOf(history, t) :
          \/ history[j].recorded_at < history[i].recorded_at
          \/ history[j].recorded_at = history[i].recorded_at /\ j <= i

(* C16: whenever a trip's current position is set the trip's history holds a
   fix with that position, and when no updateLocation call of the trip is in
   flight the current position is that of the trip's latest fix *)
C16_SnapshotIsLatestFix ==
    \A t \in TripIds :
        bus_trips[t].current_position # NoPos
        => /\ \E i \in RowsOf(bus_location_history, t) :
                 bus_location_history[i].position = bus_trips[t].current_position
           /\ CallsOf(t) = {}
              => \E i \in RowsOf(bus_location_history, t) :
                    /\ IsLatestFix(bus_location_history, t, i)
                    /\ bus_location_history[i].position = bus_trips[t].current_position

(* C17: every updateLocation call appends exactly one fix of its trip to the
   history, whatever its bus_trips update did: the update leaves the call
   waiting for its insert, the insert appends the call's fix, no call is
   dropped, and no step changes or removes a fix already stored *)
C17_EveryFixAppendedOnce ==
    [][ /\ Len(bus_location_history') >= Len(bus_location_history)
        /\ SubSeq(bus_location_history', 1, Len(bus_location_history))
              = bus_location_history
        /\ FixCount' >= FixCount
        /\ \A c \in BagToSet(locationCalls) :
              /\ updateLocationUpdated(c)
                 => /\ BagIn([c EXCEPT !.pc = "insert"], locationCalls')
                    /\ bus_location_history' = bus_location_history
              /\ updateLocationInserted(c)
                 => /\ Len(bus_location_history') = Len(bus_location_history) + 1
                    /\ bus_location_history'[Len(bus_location_history')].trip_id
                          = c.trip_id
                    /\ bus_location_history'[Len(bus_location_history')].position
                          = c.position ]_vars

(* C17 witness: two calls for one in_progress trip have returned, their
   updates applied in the opposite order of their inserts, and both fixes
   are in the history *)
C17_Witness ==
    /\ locationCalls = EmptyBag
    /\ Len(bus_location_history) = 2
    /\ bus_location_history[1].trip_id = bus_location_history[2].trip_id
    /\ bus_location_history[1].position # bus_location_history[2].position
    /\ LET t == bus_location_history[1].trip_id
       IN  /\ bus_trips[t].status = "in_progress"
           /\ bus_trips[t].current_position = bus_location_history[1].position

(* C18: an alert sent by the driver from the screen of an in_progress trip is
   stored in bus_alerts, and sending it, stored or not, leaves the trip and
   the screen's trip operations as they were *)
C18_AlertIsPersisted ==
    [][ \A s \in Sessions, type \in AlertTypes :
          ( /\ handleSendAlert(s, type)
            /\ bus_trips[id[s]].status = "in_progress" )
          => ( /\ Len(bus_alerts') = Len(bus_alerts) + 1
               /\ bus_alerts'[Len(bus_alerts')].trip_id = id[s]
               /\ bus_alerts'[Len(bus_alerts')].alert_type = type
               /\ bus_trips' = bus_trips
               /\ screen'[s] = "trip"
               /\ loading'[s] = loading[s]
               /\ trackingLocation'[s] = trackingLocation[s] ) ]_vars

(* C19: an alert whose feed item cannot be written is stored all the same:
   the failure of the fan-out does not undo or prevent the bus_alerts insert *)
C19_FanOutFailureKeepsAlert ==
    [][ \A s \in Sessions, type \in AlertTypes :
          ( /\ handleSendAlert(s, type)
            /\ ~feed_items_insert(SessionUser(s)) )
          => \E i \in DOMAIN bus_alerts' :
                /\ i \notin DOMAIN bus_alerts
                /\ bus_alerts'[i].trip_id = id[s]
                /\ bus_alerts'[i].created_by = SessionUser(s) ]_vars

(* C21: a trip row written by a user who is not the row's driver_id is
   rejected and changes nothing *)
C21_OnlyDriverWrites ==
    [][ \A r \in Routes, tt \in TripTypes, st \in {"scheduled", "in_progress"} :
          (ProvisionTrip(r, tt, st) /\ RouteDriver(r) # "admin1")
          => bus_trips' = bus_trips ]_vars

(* The student's most recent scan on the trip is a board *)
LastScanIsBoard(scans, t, stu) ==
    /\ ScansOf(scans, t, stu) # {}
    /\ \E i \in ScansOf(scans, t, stu) :
          /\ \A j \in ScansOf(scans, t, stu) : j <= i
          /\ scans[i].scan_type = "board"

(* C23: after each reload of the trip screen a student is shown as boarded
   if and only if the student's most recent scan on the trip is a board *)
C23_BoardedIsLastScan ==
    [][ \A s \in Sessions :
          fetchTripData(s)
          => \A stu \in Students :
                students'[s][stu] = LastScanIsBoard(student_bus_scans, id[s], stu) ]_vars

(* C24: after an arrival at stop S has been recorded, a reload of the trip
   screen leaves S as the screen's current stop *)
C24_CurrentStopSurvivesReload ==
    [][ \A s \in Sessions :
          (fetchTripData(s) /\ bus_trips[id[s]].current_stop_index > 0)
          => \E st \in StopIds :
                /\ stop_number(st) = bus_trips[id[s]].current_stop_index
                /\ StopAt(currentStopIndex'[s]) = st ]_vars

(* C28: no step leaves two trips, of whatever status, with the same
   (route_id, trip_date, trip_type), and a startTrip for a key whose trip is
   completed or cancelled creates no trip and stays on the home screen *)
C28_OneTripPerKeyEver ==
    [][ /\ \A i, j \in DOMAIN bus_trips' :
              ( /\ bus_trips'[i].route_id = bus_trips'[j].route_id
                /\ bus_trips'[i].trip_date = bus_trips'[j].trip_date
                /\ bus_trips'[i].trip_type = bus_trips'[j].trip_type )
              => i = j
        /\ \A s \in Sessions, r \in Routes, tt \in TripTypes :
              ( /\ startTrip(s, r, tt)
                /\ \E i \in TripIds :
                      /\ bus_trips[i].route_id = r
                      /\ bus_trips[i].trip_date = Today
                      /\ bus_trips[i].trip_type = tt
                      /\ IsClosed(i) )
              => (bus_trips' = bus_trips /\ screen'[s] = "home") ]_vars

(* C28 witness: every trip of the day is completed, no key is free, and a
   device that holds no active trip has had its startTrip refused *)
C28_Witness ==
    /\ Len(bus_trips) = Cardinality(Routes) * Cardinality(TripTypes)
    /\ \A i \in TripIds : bus_trips[i].status = "completed"
    /\ \E s \in Sessions :
          /\ screen[s] = "home"
          /\ activeTrip[s] = NoTrip
          /\ alert[s] = "Failed to start trip"

(* C29: a driver never has two in_progress trips on one date *)
C29_OneRunningTripPerDriver ==
    \A i, j \in TripIds :
        ( /\ bus_trips[i].status = "in_progress"
          /\ bus_trips[j].status = "in_progress"
          /\ bus_trips[i].driver_id = bus_trips[j].driver_id
          /\ bus_trips[i].trip_date = bus_trips[j].trip_date )
        => i = j

(* C25: whenever End Trip stops the tracking and closes the trip screen, the
   trip is completed with actual_end set: a status write that failed leaves
   the tracking running and the screen open *)
C25_EndTripClosesOnlyOnSuccess ==
    [][ \A s \in Sessions :
          ( /\ handleEndTrip(s)
            /\ screen'[s] = "home"
            /\ ~trackingLocation'[s] )
          => ( /\ bus_trips'[id[s]].status = "completed"
               /\ bus_trips'[id[s]].actual_end # NoTime ) ]_vars

(* Some device has the trip screen of trip t open with its tracking on *)
Tracked(t) ==
    \E s \in Sessions : screen[s] = "trip" /\ id[s] = t /\ trackingLocation[s]

(* C26: while no device is tracking a trip (the tracking was stopped by End
   Trip or by leaving the screen) no step adds a fix to the trip's history or
   changes the trip's position or last_location_update *)
C26_NoWriteAfterTrackingStopped ==
    [][ \A t \in TripIds :
          ~Tracked(t)
          => /\ RowsOf(bus_location_history', t) = RowsOf(bus_location_history, t)
             /\ bus_trips'[t].current_position = bus_trips[t].current_position
             /\ bus_trips'[t].last_location_update
                   = bus_trips[t].last_location_update ]_vars

(* The trip-started feed items of trip t *)
TripStartedItems(feed, t) ==
    { i \in DOMAIN feed : feed[i].trip_id = t /\ "alert_id" \notin DOMAIN feed[i] }

(* C27: a step adds one trip-started feed item for a trip when the trip
   enters in_progress in it (inserted as in_progress, or updated from
   scheduled), and no trip-started feed item for a trip otherwise: updates of
   position, stop index, occupancy and the completion add none *)
C27_OneFeedItemPerTripStart ==
    [][ \A t \in DOMAIN bus_trips' :
          LET entered ==
                /\ bus_trips'[t].status = "in_progress"
                /\ IF t \in DOMAIN bus_trips
                   THEN bus_trips[t].status = "scheduled"
                   ELSE TRUE
          IN  Cardinality(TripStartedItems(feed_items', t))
                 = Cardinality(TripStartedItems(feed_items, t))
                      + (IF entered THEN 1 ELSE 0) ]_vars

(* C27 witness: a trip has been started, has had its position, stop index
   and occupancy updated, is completed, and has exactly one trip-started
   feed item *)
C27_Witness ==
    \E t \in TripIds :
        /\ bus_trips[t].status = "completed"
        /\ bus_trips[t].current_position # NoPos
        /\ bus_trips[t].current_stop_index > 0
        /\ bus_trips[t].students_on_board > 0
        /\ Cardinality(TripStartedItems(feed_items, t)) = 1

(* The parent's screen displays a trip as in transit *)
ShownInTransit(v) == v.row # <<>> /\ v.row[1].status = "in_progress"

(* C22: once the displayed trip has ended, the viewer's next refresh that
   completes its read of the trip no longer leaves the trip displayed as in
   transit *)
C22_RefreshShowsTripEnd ==
    [][ \A c \in viewerCalls :
          ( /\ viewerTripFetched(c)
            /\ viewerTrip.row # <<>>
            /\ IsClosed(viewerTrip.row[1].id) )
          => ~ShownInTransit(viewerTrip') ]_vars

(* C30: a fetchData call that was issued before the call whose result is
   displayed does not change the displayed trip when it completes: an older,
   slower read never overwrites a newer one *)
C30_OlderReadNeverOverwrites ==
    [][ \A c \in viewerCalls :
          (viewerTripSet(c) /\ c.n < viewerTrip.n)
          => viewerTrip'.row = viewerTrip.row ]_vars

====
